---------------------------- MODULE Spec2Model ----------------------------
(***************************************************************************)
(* Model of the ertza command dispatch bus: the bootstrap of               *)
(* ertza/ertza.py, the machine.set / machine.get handlers of               *)
(* ertza/commands/serial/MachineCommands.py, and the dispatcher, command   *)
(* registry and machine store they run against; the remote server with    *)
(* its switch handlers and temperature watchers of ertza/remotes/gpio.py;  *)
(* and the correlation id of ertza/processors/osc/Osc.py.                  *)
(*                                                                         *)
(* Strings whose characters matter (keys) are sequences of one-character   *)
(* strings, so that str.replace is modelled by what it does.               *)
(***************************************************************************)
EXTENDS Integers, Sequences, FiniteSets, TLC

(***************************************************************************)
(* Bounds of the model.                                                    *)
(***************************************************************************)
\* commands and triggers submitted, all inlets together
MaxCmds == 3
\* calls of RemoteServer.run()
MaxRuns == 2
\* capacity of an inlet: the commands it queues before it is full
InletCap == 2
\* calls of register(alias, handler)
MaxRegs == 3

(***************************************************************************)
(* Scalars: the opaque argument values of a command.                       *)
(***************************************************************************)
Str(chars) == [t |-> "str", s |-> chars]
NonStr(chars) == [t |-> "int", s |-> chars]
Diag(kind) == [t |-> "diag", s |-> <<kind>>]
None == [t |-> "none", s |-> <<>>]

K_a_dot_b == Str(<<"a", ".", "b">>)
K_a_col_b == Str(<<"a", ":", "b">>)
K_c == Str(<<"c">>)
K_int == NonStr(<<"7">>)
V_1 == Str(<<"1">>)
V_2 == Str(<<"2">>)

\* the first arguments (keys) the servers submit
Keys == {K_a_dot_b, K_a_col_b, K_c, K_int}

IsStr(x) == x.t = "str"

(***************************************************************************)
(* str.replace(old, new) for one-character old and new.                    *)
(***************************************************************************)
Replace(chars, old, new) ==
    [i \in DOMAIN chars |-> IF chars[i] = old THEN new ELSE chars[i]]

(***************************************************************************)
(* normalize(raw_key): the segment sequence of a key, split on both        *)
(* delimiters.  Used to name the canonical path a command addresses.       *)
(***************************************************************************)
Delims == {".", ":"}

RECURSIVE Split(_)
Split(chars) ==
    IF chars = <<>> THEN << <<>> >>
    ELSE LET r == Split(Tail(chars))
         IN  IF Head(chars) \in Delims
             THEN << <<>> >> \o r
             ELSE << <<Head(chars)>> \o Head(r) >> \o Tail(r)

normalize(k) == Split(k.s)

\* a key with a well-formed path: a string with no empty segment
WellFormedKey(k) ==
    /\ IsStr(k)
    /\ \A i \in DOMAIN normalize(k) : normalize(k)[i] # <<>>

(***************************************************************************)
(* Processors, channels and commands.                                      *)
(***************************************************************************)
\* OscServer.identifier, SerialServer.identifier
OSC == "OSC"
Serial == "Serial"
\* the inlet designated for internal events
Events == "Events"

Procs == {OSC, Serial}
Ids == Procs \cup {Events}

\* the aliases of MachineSet and MachineGet, and a name bound to no handler
MachineSet_alias == "machine.set"
MachineGet_alias == "machine.get"
Ping == "machine.ping"
\* the function a switch is configured with
SwitchFunction == "switch.trigger"

CmdNames == {MachineSet_alias, MachineGet_alias, Ping}

\* the argument lists the servers submit with machine.set: 0, 1, 2 and 3
\* arguments.  The two spellings of the two-segment key carry different
\* values, so that a write under one is told from a write under the other.
SetArgs ==
    {<<>>, <<K_c>>, <<K_c, V_1, V_2>>}
        \cup {<<K_a_dot_b, V_1>>, <<K_a_col_b, V_2>>, <<K_c, V_1>>, <<K_int, V_1>>}

\* with machine.get: 0, 1 and 2 arguments
GetArgs == {<<>>, <<K_c, V_1>>} \cup {<<k>> : k \in Keys \ {K_int}}

ArgsFor(name) ==
    CASE name = MachineSet_alias -> SetArgs
      [] name = MachineGet_alias -> GetArgs
      [] OTHER -> {<<K_c>>}

NoCmd == [seq |-> 0, name |-> "", args |-> <<>>, route |-> ""]

VARIABLES
    config,     \* the [osc] and [serial] "disable" options
    state,      \* per inlet: ABSENT, REGISTERED, ACTIVE or STOPPED
    outletOf,   \* OscProcessor.outlet, SerialProcessor.outlet: the outlet bound
    inlet,      \* per inlet: the queue processor -> bus
    outlet,     \* per outlet: the queue bus -> processor
    machine,    \* the machine store: canonical key -> value
    pc,         \* per consumer: idle, or reply (between store access and ok)
    cur,        \* per consumer: the command being executed
    pend,       \* per consumer: the arguments of the ok reply to send
    sent,       \* per inlet: the number of commands submitted
    escaped,    \* the commands whose handler raised out of _execute
    submitted,  \* history: the commands and triggers put on an inlet
    raised,     \* history: the commands whose handler raised in its try block
    lastSet,    \* history: canonical path -> the machine.set that last wrote it
    boot,       \* how far main() has got: Ertza.__init__, start(), exit()
    closing,    \* history: the commands in flight when shutdown closed the inlets
    fake_mode,      \* RemoteServer.fake_mode
    pins,           \* per switch pin: the input level and the edge-detected flag
    switchs,        \* per SwitchHandler: its state attribute
    temp_watchers,  \* per TempWatcher: error, error_last, error_sum, error_delta, duty
    ran,            \* history: the calls of run() so far and what the last one did
    restart_event,  \* RemoteServer.restart_event: none given, or set, or clear
    built,          \* RemoteServer.__init__: not run yet, completed, or left by an exception
    reconf,         \* history: what the last run() did about reconfiguration
    blocked,    \* per inlet: the command its producer is blocked on, if any
    offered,    \* history: the commands and triggers a producer called put with
    waited,     \* history: the commands whose put found the inlet full
    taken,      \* history: the commands pulled from an inlet by its consumer
    registry,   \* the command registry: alias -> handler
    reg,        \* history: the calls of register so far and what the last one did
    exchange    \* an OSC exchange: the request, its ok reply and its error reply

\* the dispatch bus
busVars == <<config, state, outletOf, inlet, outlet, machine, pc, cur, pend,
             sent, escaped, submitted, raised, lastSet, boot, closing>>

\* the remote server with its switch handlers and temperature watchers
remoteVars == <<fake_mode, pins, switchs, temp_watchers, ran, restart_event,
               built, reconf>>

\* the producers' side of the inlets
queueVars == <<blocked, offered, waited, taken>>

\* the command registry
regVars == <<registry, reg>>

\* the OSC messages of one exchange
oscVars == <<exchange>>

vars == <<busVars, remoteVars, queueVars, regVars, oscVars>>

(***************************************************************************)
(* The machine store: a mapping from canonical key to value, last write    *)
(* wins, a read of an absent key fails.                                    *)
(***************************************************************************)
EmptyStore == << >>

Machine_setitem(m, nk, v) == (nk :> v) @@ m

Machine_contains(m, nk) == nk \in DOMAIN m

Machine_getitem(m, nk) == m[nk]

(***************************************************************************)
(* MachineSet.execute and MachineGet.execute, up to and including the      *)
(* store access.  The result names what the handler did:                   *)
(*   out  = "error": self.error(c, ...) was called with args               *)
(*          "ok"   : the store access succeeded, self.ok(c, ...) is next   *)
(*          "raise": an exception left execute                             *)
(*   exc  = the exception raised inside the try block, "" when none        *)
(***************************************************************************)
InvalidArgs == "Invalid number of arguments"
ValueError == "ValueError"
AttributeError == "AttributeError"
UnknownKeyError == "UnknownKeyError"
UnboundLocalError == "UnboundLocalError"
UnknownCommandError == "UnknownCommandError"

\* mutants: k.replace(':', '.'), and '.'.replace(k, ':')
MachineSet_nk_swapped(k) == Str(Replace(k.s, ":", "."))

MachineSet_nk_receiver(k) == IF k.s = <<".">> THEN Str(<<":">>) ELSE Str(<<".">>)

\* nk = k.replace('.', ':')
MachineSet_nk(k) == Str(Replace(k.s, ".", ":"))

\* mutant: the key is looked up as given
MachineGet_nk_raw(k) == k

MachineGet_nk(k) == Str(Replace(k.s, ".", ":"))

\* if len(c.args) < 2
MachineSet_arity_rejected(args) == Len(args) < 2

\* if len(c.args) != 1
MachineGet_arity_rejected(args) == Len(args) # 1

Result(out, args, exc, m, wrote) ==
    [out |-> out, args |-> args, exc |-> exc, machine |-> m, wrote |-> wrote]

\* mutant: self.machine[k] = v comes first, before nk = k.replace('.', ':')
MachineSet_execute_write_first(c, m) ==
    IF MachineSet_arity_rejected(c.args)
    THEN Result("error", <<Diag(InvalidArgs)>>, "", m, FALSE)
    ELSE IF Len(c.args) # 2
    THEN Result("raise", <<Diag(UnboundLocalError)>>, ValueError, m, FALSE)
    ELSE LET k == c.args[1]
             v == c.args[2]
         IN  IF ~IsStr(k)
             THEN Result("error", <<k, Diag(AttributeError)>>, AttributeError,
                         Machine_setitem(m, k, v), FALSE)
             ELSE Result("ok", <<k, v>>, "",
                         Machine_setitem(m, MachineSet_nk(k), v), TRUE)

MachineSet_execute(c, m) ==
    IF MachineSet_arity_rejected(c.args)
    THEN Result("error", <<Diag(InvalidArgs)>>, "", m, FALSE)
    ELSE IF Len(c.args) # 2
    \* k, v, = c.args raises before k is bound; the except clause reads k
    THEN Result("raise", <<Diag(UnboundLocalError)>>, ValueError, m, FALSE)
    ELSE LET k == c.args[1]
             v == c.args[2]
         IN  IF ~IsStr(k)
             THEN Result("error", <<k, Diag(AttributeError)>>, AttributeError,
                         m, FALSE)
             ELSE Result("ok", <<k, v>>, "",
                         Machine_setitem(m, MachineSet_nk(k), v), TRUE)

\* mutant: v = self.machine.get(nk), None for an absent key
MachineGet_execute_default(c, m) ==
    IF MachineGet_arity_rejected(c.args)
    THEN Result("error", <<Diag(InvalidArgs)>>, "", m, FALSE)
    ELSE LET k == c.args[1]
         IN  IF ~IsStr(k)
             THEN Result("error", <<k, Diag(AttributeError)>>, AttributeError,
                         m, FALSE)
             ELSE IF ~Machine_contains(m, MachineGet_nk(k))
             THEN Result("ok", <<k, None>>, "", m, FALSE)
             ELSE Result("ok", <<k, Machine_getitem(m, MachineGet_nk(k))>>, "",
                         m, FALSE)

MachineGet_execute(c, m) ==
    IF MachineGet_arity_rejected(c.args)
    THEN Result("error", <<Diag(InvalidArgs)>>, "", m, FALSE)
    ELSE LET k == c.args[1]
         IN  IF ~IsStr(k)
             THEN Result("error", <<k, Diag(AttributeError)>>, AttributeError,
                         m, FALSE)
             ELSE IF ~Machine_contains(m, MachineGet_nk(k))
             THEN Result("error", <<k, Diag(UnknownKeyError)>>, UnknownKeyError,
                         m, FALSE)
             ELSE Result("ok", <<k, Machine_getitem(m, MachineGet_nk(k))>>, "",
                         m, FALSE)

(***************************************************************************)
(* The command registry.                                                   *)
(***************************************************************************)
NoHandler == "none"

\* mutant: a name bound to no handler falls back to a handler
resolve_fallback(name) ==
    IF name = MachineSet_alias THEN "MachineSet" ELSE "MachineGet"

resolve(name) ==
    CASE name = MachineSet_alias -> "MachineSet"
      [] name = MachineGet_alias -> "MachineGet"
      [] OTHER -> NoHandler

(***************************************************************************)
(* OscMessage: a path and its arguments.  A path is a string, modelled as  *)
(* the sequence of its characters.                                         *)
(***************************************************************************)
OkMarker == <<"/", "o", "k">>
ErrorMarker == <<"/", "e", "r", "r", "o", "r">>
PingMark == <<"/", "p", "i", "n", "g">>

\* the paths the OSC server receives requests on
RequestPaths ==
    { <<"/", "a">>,
      <<"/", "p", "i", "n", "g">>,
      <<"/", "o", "k", "a", "y">>,
      <<"/", "a", "/", "e", "r", "r", "o", "r", "s">> }

\* the arguments of those requests
RequestArgs == { <<>>, <<K_c>>, <<K_int>>, <<K_c, V_1>> }

OscMessage(path, args) == [path |-> path, args |-> args]

NoMsg == [path |-> <<>>, args |-> <<>>]

\* str.find(sub): the first position sub occurs at, 0 if it does not occur
Find(chars, sub) ==
    LET At == {i \in 1..(Len(chars) - Len(sub) + 1) :
                  SubSeq(chars, i, i + Len(sub) - 1) = sub}
    IN  IF At = {} THEN 0 ELSE CHOOSE i \in At : \A j \in At : i <= j

\* sub in chars
Contains(chars, sub) == Find(chars, sub) # 0

\* str.replace(old, new, 1): the first occurrence of old replaced
ReplaceFirst(chars, old, new) ==
    LET i == Find(chars, old)
    IN  IF i = 0 THEN chars
        ELSE SubSeq(chars, 1, i - 1) \o new
             \o SubSeq(chars, i + Len(old), Len(chars))

Uid(chars) == [kind |-> "uid", v |-> chars]
IndexError == [kind |-> "IndexError", v |-> <<>>]
TypeError == [kind |-> "TypeError", v |-> <<>>]

\* OscMessage.uid
OscMessage_uid(m) ==
    LET clean_path == ReplaceFirst(ReplaceFirst(m.path, OkMarker, <<>>),
                                   ErrorMarker, <<>>)
    IN  IF Contains(clean_path, PingMark) THEN Uid(clean_path)
        ELSE IF m.args = <<>> THEN IndexError
        ELSE IF ~IsStr(m.args[1]) THEN TypeError
        ELSE Uid(clean_path \o <<" ">> \o m.args[1].s)

\* no message of the exchange exists yet
Osc_init == exchange = [req |-> NoMsg, ok |-> NoMsg, error |-> NoMsg]

(***************************************************************************)
(* The command registry: register binds an alias once, a second register   *)
(* of the alias fails with DuplicateAliasError and binds nothing.          *)
(***************************************************************************)
DuplicateAliasError == "DuplicateAliasError"

Aliases == {MachineSet_alias, MachineGet_alias, Ping}

Handlers == {"MachineSet", "MachineGet", "Ping"}

EmptyRegistry == [a \in {} |-> NoHandler]

\* the registry as populated at startup: what resolve looks names up in
StartupRegistry ==
    [a \in {MachineSet_alias, MachineGet_alias} |-> resolve(a)]

Registry_resolve(r, name) == IF name \in DOMAIN r THEN r[name] ELSE NoHandler

\* mutant: the last registration of an alias wins, silently
Registry_register_overwrite(r, alias, handler) ==
    [registry |-> (alias :> handler) @@ r, error |-> ""]

Registry_register(r, alias, handler) ==
    IF alias \in DOMAIN r
    THEN [registry |-> r, error |-> DuplicateAliasError]
    ELSE [registry |-> (alias :> handler) @@ r, error |-> ""]

NoCall == [n |-> 0, alias |-> "", handler |-> NoHandler, error |-> "",
           before |-> EmptyRegistry, first |-> EmptyRegistry]

\* the registry once startup is over
Registry_init == registry = StartupRegistry /\ reg = NoCall

\* Ertza._execute(c, p): p.execute(c), nothing caught
Ertza_execute(c, m) ==
    IF resolve(c.name) = "MachineSet" THEN MachineSet_execute(c, m)
    ELSE MachineGet_execute(c, m)

(***************************************************************************)
(* Replies.  obs is history: for a machine.get that reached the store, the *)
(* machine.set that last wrote the key's canonical path when it was read.  *)
(***************************************************************************)
ReplyRec(c, kind, args, obs) == [re |-> c, kind |-> kind, args |-> args, obs |-> obs]

\* mutant: the queue is last in, first out
Enqueue_front(q, c) == <<c>> \o q

\* the inlet and outlet queues are first in, first out
Enqueue(q, c) == Append(q, c)

\* mutant: a put on a full inlet returns at once and the command is lost
Inlet_put_nowait(q, c) ==
    IF Len(q) < InletCap
    THEN [queue |-> Enqueue(q, c), queued |-> TRUE, blocked |-> NoCmd]
    ELSE [queue |-> q, queued |-> FALSE, blocked |-> NoCmd]

\* put on an inlet: the command is queued if there is room, and the producer
\* is blocked on it if the inlet is full
Inlet_put(q, c) ==
    IF Len(q) < InletCap
    THEN [queue |-> Enqueue(q, c), queued |-> TRUE, blocked |-> NoCmd]
    ELSE [queue |-> q, queued |-> FALSE, blocked |-> c]

\* SerialCommand.ok / SerialCommand.error: the outlet the reply is pushed to
ReplyOutlet(c, wiring) == wiring[c.route]

Push(out, c, kind, args, obs, wiring) ==
    [out EXCEPT ![ReplyOutlet(c, wiring)] = Enqueue(@, ReplyRec(c, kind, args, obs))]

NeverWritten == [seq |-> 0, name |-> "never written", args |-> <<>>, route |-> ""]

Observed(c, ls) ==
    IF c.name = MachineGet_alias /\ Len(c.args) = 1 /\ IsStr(c.args[1])
    THEN IF normalize(c.args[1]) \in DOMAIN ls THEN ls[normalize(c.args[1])]
         ELSE NeverWritten
    ELSE NoCmd

(***************************************************************************)
(* The remote server (remotes/gpio.py): two switch pins with a             *)
(* SwitchHandler each, two temperature sensors with a TempWatcher each.    *)
(* The names a method reads are taken as what the method evidently means:  *)
(* detect_gpio_state iterates the handlers create_switch_pins made, and    *)
(* get_error and get_pid read target_temp, get_p, get_i, get_d, coeff_td.  *)
(***************************************************************************)
\* SWITCH_PINS = ("P8_10", "P8_11",), TEMP_PINS: the indices enumerate gives
Switches == {0, 1}
Watchers == {0, 1}

\* TEMP_TARGET, in degrees
TEMP_TARGET == 40

\* max_temperature_TH<t>, the configured maximum, in degrees
max_temperature == 45

\* coeff_g, and coeff_ti and coeff_td in tenths
coeff_g == 1
coeff_ti_tenths == 1
coeff_td_tenths == 1

\* the state of a handler that has not read its pin yet
NoState == None

\* the action option of section switch_<i>
SwitchAction(i) == IF i = 0 THEN SwitchFunction ELSE "switch_1.trigger"

\* the trigger a watcher above its maximum is to submit
TempTrigger == "machine.temperature_exceeded"

\* the name of watcher w, as a trigger would carry it
WatcherName(w) == IF w = 0 THEN Str(<<"T", "W", "0">>) ELSE Str(<<"T", "W", "1">>)

\* what a sensor gives on one tick: a sample, IOError from file.read() inside
\* the try block, or IOError from open(), which is outside it
Sample(v) == [kind |-> "sample", v |-> v]
ReadError == [kind |-> "IOError in read", v |-> 0]
OpenError == [kind |-> "IOError in open", v |-> 0]
NotRead == [kind |-> "not read", v |-> 0]
Samples == {38, 50}
SensorOutcomes == {Sample(v) : v \in Samples} \cup {ReadError, OpenError}

\* TempWatcher.__init__ and PWM.start(fan, 0), with the PID terms at rest
TempWatcher_init ==
    [error |-> 0, error_last |-> 0, error_sum |-> 0, error_delta |-> 0, duty |-> 0]

NoRun == [n |-> 0,
          sensed |-> [w \in Watchers |-> NotRead],
          before |-> [w \in Watchers |-> TempWatcher_init],
          was |-> [i \in Switches |-> NoState],
          triggered |-> [i \in Switches |-> FALSE]]

\* self.restart_event when the restart_event argument is not given
NoEvent == "no event"

\* what create_switch_pins and create_temp_watchers come to outside fake mode:
\* both succeed, or the one or the other raises NameError or RuntimeError
PinOutcomes == {"configured", "switch pins fail", "temp watchers fail"}

NoReconf == [entered |-> FALSE, created |-> FALSE, remote_error |-> FALSE,
             event_before |-> NoEvent, polled |-> FALSE]

\* RemoteServer.__init__ with the pins configured and no restart event given;
\* fm is the fake mode it ends in
RemoteServer_init(fm) ==
    /\ restart_event = NoEvent
    /\ built = "constructed"
    /\ reconf = NoReconf
    /\ fake_mode = fm
    /\ pins = [i \in Switches |-> [level |-> 1, event |-> FALSE]]
    /\ switchs = [i \in Switches |-> NoState]
    /\ temp_watchers = [w \in Watchers |-> TempWatcher_init]
    /\ ran = NoRun

(***************************************************************************)
(* Ertza.__init__: the dispatcher is created, and each processor whose     *)
(* "disable" option is not set is added and bound to its outlet.           *)
(***************************************************************************)
Unbound == "unbound"

\* ident = OscServer.identifier; OscProcessor.outlet = dispatcher.outlet(ident)
OscProcessor_outlet == OSC

\* mutant: the serial processor is bound with the OSC server's identifier
SerialProcessor_outlet_osc == OSC

\* ident = SerialServer.identifier; SerialProcessor.outlet = dispatcher.outlet(ident)
SerialProcessor_outlet == Serial

\* mutant: the serial block tests the [osc] option
Enabled_osc_option(cfg, p) == ~cfg.osc_disable

Enabled(cfg, p) == IF p = OSC THEN ~cfg.osc_disable ELSE ~cfg.serial_disable

Ertza_init_state(cfg) ==
    [i \in Ids |-> IF i \in Procs /\ ~Enabled(cfg, i) THEN "ABSENT" ELSE "REGISTERED"]

Ertza_init_outlets(cfg) ==
    [i \in Ids |->
        IF i = OSC THEN (IF Enabled(cfg, OSC) THEN OscProcessor_outlet ELSE Unbound)
        ELSE IF i = Serial
        THEN (IF Enabled(cfg, Serial) THEN SerialProcessor_outlet ELSE Unbound)
        ELSE Events]

\* the inlets at creation: nobody blocked, nothing offered or taken
Inlet_init ==
    /\ blocked = [i \in Ids |-> NoCmd]
    /\ offered = {}
    /\ waited = {}
    /\ taken = {}

Init ==
    /\ config \in [osc_disable : BOOLEAN, serial_disable : BOOLEAN]
    /\ state = Ertza_init_state(config)
    /\ outletOf = Ertza_init_outlets(config)
    /\ inlet = [i \in Ids |-> <<>>]
    /\ outlet = [i \in Ids |-> <<>>]
    /\ machine = EmptyStore
    /\ pc = [i \in Ids |-> "idle"]
    /\ cur = [i \in Ids |-> NoCmd]
    /\ pend = [i \in Ids |-> <<>>]
    /\ sent = [i \in Ids |-> 0]
    /\ escaped = {}
    /\ submitted = {}
    /\ raised = {}
    /\ lastSet = EmptyStore
    /\ boot = "constructed"
    /\ closing = {}
    /\ RemoteServer_init(FALSE)
    /\ Inlet_init
    /\ Registry_init
    /\ Osc_init

(***************************************************************************)
(* Ertza.start: dispatcher.start() makes every registered consumer active. *)
(***************************************************************************)
Dispatcher_start(st) ==
    [i \in Ids |-> IF st[i] = "REGISTERED" THEN "ACTIVE" ELSE st[i]]

Start ==
    /\ boot = "constructed"
    /\ \E i \in Ids : state[i] = "REGISTERED"
    /\ state' = Dispatcher_start(state)
    /\ boot' = "started"
    /\ UNCHANGED <<config, outletOf, inlet, outlet, machine, pc, cur, pend,
                   sent, escaped, submitted, raised, lastSet, closing>>
    /\ UNCHANGED remoteVars
    /\ UNCHANGED regVars
    /\ UNCHANGED oscVars
    /\ UNCHANGED queueVars

(***************************************************************************)
(* A transport server puts a command on its processor's inlet.             *)
(***************************************************************************)
Submitted == sent[OSC] + sent[Serial] + sent[Events]

\* an inlet accepts commands from start() until shutdown closes it
InletOpen(b) == b = "started"

Cmd(p, n, name, args) == [seq |-> n, name |-> name, args |-> args, route |-> p]

\* the producer of inlet p calls put with command c
Put(p, c) ==
    LET r == Inlet_put(inlet[p], c)
    IN  /\ blocked[p] = NoCmd
        /\ inlet' = [inlet EXCEPT ![p] = r.queue]
        /\ blocked' = [blocked EXCEPT ![p] = r.blocked]
        /\ submitted' = IF r.queued THEN submitted \cup {c} ELSE submitted
        /\ offered' = offered \cup {c}
        /\ waited' = IF r.queued THEN waited ELSE waited \cup {c}
        /\ sent' = [sent EXCEPT ![p] = @ + 1]
        /\ UNCHANGED taken

Submit(p) ==
    /\ state[p] = "ACTIVE"
    /\ InletOpen(boot)
    /\ Submitted < MaxCmds
    /\ \E name \in CmdNames : \E args \in ArgsFor(name) :
          Put(p, Cmd(p, sent[p] + 1, name, args))
    /\ UNCHANGED <<config, state, outletOf, outlet, machine, pc, cur, pend,
                   escaped, raised, lastSet, boot, closing>>
    /\ UNCHANGED remoteVars
    /\ UNCHANGED regVars
    /\ UNCHANGED oscVars

\* a blocked producer goes on once its inlet has room: its command is queued
Unblock(p) ==
    /\ blocked[p] # NoCmd
    /\ InletOpen(boot)
    /\ Len(inlet[p]) < InletCap
    /\ inlet' = [inlet EXCEPT ![p] = Enqueue(@, blocked[p])]
    /\ submitted' = submitted \cup {blocked[p]}
    /\ blocked' = [blocked EXCEPT ![p] = NoCmd]
    /\ UNCHANGED <<config, state, outletOf, outlet, machine, pc, cur, pend, sent,
                   escaped, raised, lastSet, boot, closing>>
    /\ UNCHANGED remoteVars
    /\ UNCHANGED regVars
    /\ UNCHANGED oscVars
    /\ UNCHANGED <<offered, waited, taken>>

(***************************************************************************)
(* A switch edge watcher submits a trigger naming the switch's function    *)
(* and carrying its state on the internal-events inlet.                    *)
(***************************************************************************)
SwitchStates == {Str(<<"0">>), Str(<<"1">>)}

Trigger ==
    /\ state[Events] = "ACTIVE"
    /\ InletOpen(boot)
    /\ Submitted < MaxCmds
    /\ \E st \in SwitchStates :
          Put(Events, Cmd(Events, sent[Events] + 1, SwitchFunction, <<st>>))
    /\ UNCHANGED <<config, state, outletOf, outlet, machine, pc, cur, pend,
                   escaped, raised, lastSet, boot, closing>>
    /\ UNCHANGED remoteVars
    /\ UNCHANGED regVars
    /\ UNCHANGED oscVars

(***************************************************************************)
(* The dispatcher's consumer of inlet i.                                   *)
(***************************************************************************)
\* Pull a command, resolve its handler and run it up to its store access; an
\* error reply (no alias, or self.error) is sent at once.  An exception that
\* leaves execute passes through Ertza._execute uncaught: no reply has been
\* pushed, the command is recorded in escaped, and the consumer goes on with
\* the next command (the dispatcher does not terminate on a command).
Take(i) ==
    /\ state[i] = "ACTIVE"
    /\ pc[i] = "idle"
    /\ inlet[i] # <<>>
    /\ inlet' = [inlet EXCEPT ![i] = Tail(@)]
    /\ LET c == Head(inlet[i])
       IN  IF resolve(c.name) = NoHandler
           THEN /\ outlet' = Push(outlet, c, "error",
                                  <<Diag(UnknownCommandError)>>, NoCmd, outletOf)
                /\ UNCHANGED <<machine, pc, cur, pend, escaped, raised, lastSet>>
           ELSE LET r == Ertza_execute(c, machine)
                IN  /\ machine' = r.machine
                    /\ lastSet' = IF r.wrote
                                  THEN (normalize(c.args[1]) :> c) @@ lastSet
                                  ELSE lastSet
                    /\ raised' = IF r.exc # "" THEN raised \cup {c} ELSE raised
                    /\ escaped' = IF r.out = "raise" THEN escaped \cup {c}
                                  ELSE escaped
                    /\ outlet' = IF r.out = "error"
                                 THEN Push(outlet, c, "error", r.args,
                                           Observed(c, lastSet), outletOf)
                                 ELSE outlet
                    /\ IF r.out = "ok"
                       THEN /\ pc' = [pc EXCEPT ![i] = "reply"]
                            /\ cur' = [cur EXCEPT ![i] = c]
                            /\ pend' = [pend EXCEPT ![i] =
                                           <<r.args, Observed(c, lastSet)>>]
                       ELSE UNCHANGED <<pc, cur, pend>>
    /\ taken' = taken \cup {Head(inlet[i])}
    /\ UNCHANGED <<config, state, outletOf, sent, submitted, boot, closing>>
    /\ UNCHANGED remoteVars
    /\ UNCHANGED regVars
    /\ UNCHANGED oscVars
    /\ UNCHANGED <<blocked, offered, waited>>

\* self.ok(c, k, v)
Reply(i) ==
    /\ pc[i] = "reply"
    /\ outlet' = Push(outlet, cur[i], "ok", pend[i][1], pend[i][2], outletOf)
    /\ pc' = [pc EXCEPT ![i] = "idle"]
    /\ cur' = [cur EXCEPT ![i] = NoCmd]
    /\ pend' = [pend EXCEPT ![i] = <<>>]
    /\ UNCHANGED <<config, state, outletOf, inlet, machine, sent, escaped,
                   submitted, raised, lastSet, boot, closing>>
    /\ UNCHANGED remoteVars
    /\ UNCHANGED regVars
    /\ UNCHANGED oscVars
    /\ UNCHANGED queueVars

(***************************************************************************)
(* main(): Ertza.__init__ block by block, start(), and exit() on SIGINT.   *)
(* Shutdown closes the inlets; a consumer exits once its inlet is drained. *)
(***************************************************************************)
\* the dispatcher has been started
Dispatcher_started(st) == \E i \in Ids : st[i] \in {"ACTIVE", "STOPPED"}

\* dispatcher.add_processor: no processor may be added once started
Dispatcher_add_processor(st, p) ==
    IF Dispatcher_started(st) THEN st ELSE [st EXCEPT ![p] = "REGISTERED"]

\* the position of main() before and after the block of processor p
BlockOf(p) == IF p = OSC THEN "init osc" ELSE "init serial"

AfterBlock(p) == IF p = OSC THEN "init serial" ELSE "constructed"

\* Dispatcher(): the internal-events inlet is there, no processor is
Dispatcher_init_state == [i \in Ids |-> IF i = Events THEN "REGISTERED" ELSE "ABSENT"]

Dispatcher_init_outlets == [i \in Ids |-> IF i = Events THEN Events ELSE Unbound]

\* if not machine.config.get(<p>, 'disable', fallback=False): add_processor,
\* add_server, <p>Processor.outlet = dispatcher.outlet(ident)
Ertza_init_block(p) ==
    /\ boot = BlockOf(p)
    /\ boot' = AfterBlock(p)
    /\ IF Enabled(config, p)
       THEN /\ state' = Dispatcher_add_processor(state, p)
            /\ outletOf' = [outletOf EXCEPT ![p] =
                               IF p = OSC THEN OscProcessor_outlet
                               ELSE SerialProcessor_outlet]
       ELSE UNCHANGED <<state, outletOf>>
    /\ UNCHANGED <<config, inlet, outlet, machine, pc, cur, pend, sent, escaped,
                   submitted, raised, lastSet, closing>>
    /\ UNCHANGED remoteVars
    /\ UNCHANGED regVars
    /\ UNCHANGED oscVars
    /\ UNCHANGED queueVars

\* the commands queued in an inlet or held by its consumer
InFlight ==
    {c \in submitted :
        \/ \E i \in Ids : \E n \in DOMAIN inlet[i] : inlet[i][n] = c
        \/ \E i \in Ids : cur[i] = c}

\* Ertza.exit: self.machine.exit(), which shuts the dispatcher down
Ertza_exit ==
    /\ boot = "started"
    /\ boot' = "exited"
    /\ closing' = InFlight
    /\ UNCHANGED <<config, state, outletOf, inlet, outlet, machine, pc, cur, pend,
                   sent, escaped, submitted, raised, lastSet>>
    /\ UNCHANGED remoteVars
    /\ UNCHANGED regVars
    /\ UNCHANGED oscVars
    /\ UNCHANGED queueVars

\* the consumer of a closed, drained inlet exits
Consumer_exit(i) ==
    /\ boot = "exited"
    /\ state[i] = "ACTIVE"
    /\ pc[i] = "idle"
    /\ inlet[i] = <<>>
    /\ state' = [state EXCEPT ![i] = "STOPPED"]
    /\ UNCHANGED <<config, outletOf, inlet, outlet, machine, pc, cur, pend, sent,
                   escaped, submitted, raised, lastSet, boot, closing>>
    /\ UNCHANGED remoteVars
    /\ UNCHANGED regVars
    /\ UNCHANGED oscVars
    /\ UNCHANGED queueVars

(***************************************************************************)
(* The switch pins: GPIO.add_event_detect(pin, GPIO.BOTH) latches every    *)
(* edge of the input until GPIO.event_detected(pin) reads the latch.       *)
(***************************************************************************)
Edge(i) ==
    /\ pins' = [pins EXCEPT ![i] = [level |-> 1 - @.level, event |-> TRUE]]
    /\ UNCHANGED <<busVars, fake_mode, switchs, temp_watchers, ran, restart_event,
                   built, reconf>>
    /\ UNCHANGED queueVars
    /\ UNCHANGED regVars
    /\ UNCHANGED oscVars

\* the state a trigger carries
SwitchState(level) == IF level = 1 THEN Str(<<"1">>) ELSE Str(<<"0">>)

\* SwitchHandler.update_state: True with state = GPIO.input(pin) when an
\* edge was detected, None otherwise
SwitchHandler_update_state(pin, st) ==
    IF pin.event
    THEN [ret |-> TRUE, state |-> SwitchState(pin.level)]
    ELSE [ret |-> FALSE, state |-> st]

\* self.mdb_request.trigger(p.action, p.state), for the handlers in order
detect_gpio_state(sw, q, n) ==
    LET u(i) == SwitchHandler_update_state(pins[i], sw[i])
        t(i, k) == Cmd(Events, k, SwitchAction(i), <<u(i).state>>)
        q0 == IF u(0).ret THEN Enqueue(q, t(0, n + 1)) ELSE q
        n0 == IF u(0).ret THEN n + 1 ELSE n
        q1 == IF u(1).ret THEN Enqueue(q0, t(1, n0 + 1)) ELSE q0
        n1 == IF u(1).ret THEN n0 + 1 ELSE n0
    IN  [queue |-> q1, sent |-> n1,
         new |-> (IF u(0).ret THEN {t(0, n + 1)} ELSE {})
                    \cup (IF u(1).ret THEN {t(1, n0 + 1)} ELSE {}),
         state |-> [i \in Switches |-> u(i).state],
         ret |-> [i \in Switches |-> u(i).ret]]

(***************************************************************************)
(* TempWatcher.set_pid: get_error, get_pid, fan.set_duty_cycle.  The duty  *)
(* cycle is kept in tenths.                                                *)
(***************************************************************************)
\* get_temperature: the sample, or -1.0 when file.read() raised IOError
TempWatcher_get_temperature(o) == IF o = ReadError THEN -1 ELSE o.v

\* get_error, as far as it gets: error_last is assigned before the sensor is
\* read, and IOError from open() leaves the method there
TempWatcher_get_error(tw, o) ==
    LET last == tw.error
        err == TEMP_TARGET - TempWatcher_get_temperature(o)
    IN  IF o = OpenError
        THEN [tw EXCEPT !.error_last = last]
        ELSE [tw EXCEPT !.error_last = last,
                        !.error = err,
                        !.error_sum = tw.error_sum + err,
                        !.error_delta = err - last]

\* get_pid: get_p + get_i + get_d
TempWatcher_get_pid(tw) ==
    10 * coeff_g * tw.error + coeff_ti_tenths * tw.error_sum
        + coeff_td_tenths * tw.error_delta

TempWatcher_set_pid(tw, o) ==
    LET e == TempWatcher_get_error(tw, o)
    IN  IF o = OpenError THEN e ELSE [e EXCEPT !.duty = TempWatcher_get_pid(e)]

\* update_pid: set_pid for the watchers in order; an exception ends the loop
update_pid(tws, o) ==
    [w \in Watchers |->
        IF w = 1 /\ o[0] = OpenError THEN tws[w]
        ELSE TempWatcher_set_pid(tws[w], o[w])]

update_pid_raised(o) == \E w \in Watchers : o[w] = OpenError

\* the sensors update_pid read, and with what outcome
Sensed(o) == [w \in Watchers |-> IF w = 1 /\ o[0] = OpenError THEN NotRead ELSE o[w]]

(***************************************************************************)
(* RemoteServer.run(interval, init).  With the restart event set, or at    *)
(* construction, the pins are configured again and the event is cleared;   *)
(* NameError or RuntimeError there leaves run as RemoteError (the fallback *)
(* written after the raise is never reached).  Then, outside fake mode,    *)
(* update_pid, and detect_gpio_state unless update_pid raised.             *)
(***************************************************************************)
\* if (self.restart_event and self.restart_event.is_set()) or init
Reconfigures(ev, init) == ev = "set" \/ init

\* mutant: the test of fake mode is left out
RemoteServer_polls_always(fm) == TRUE

\* if not self.fake_mode
RemoteServer_polls(fm) == ~fm

\* create_switch_pins(); create_temp_watchers(): in fake mode both return
\* False; otherwise the handlers and watchers are made anew, as far as it gets
RemoteServer_configure(fm, oc, sw, tws) ==
    IF fm
    THEN [raised |-> FALSE, created |-> FALSE, switchs |-> sw, temp_watchers |-> tws]
    ELSE IF oc = "switch pins fail"
    THEN [raised |-> TRUE, created |-> FALSE, switchs |-> sw, temp_watchers |-> tws]
    ELSE IF oc = "temp watchers fail"
    THEN [raised |-> TRUE, created |-> FALSE,
          switchs |-> [i \in Switches |-> NoState], temp_watchers |-> tws]
    ELSE [raised |-> FALSE, created |-> TRUE,
          switchs |-> [i \in Switches |-> NoState],
          temp_watchers |-> [w \in Watchers |-> TempWatcher_init]]

\* one call of run, from the server's fields, the pin outcome oc and the
\* sensor outcomes o, to the fields and what the call did
RemoteServer_run_result(fm, ev, init, sw, tws, q, n, oc, o) ==
    LET entered == Reconfigures(ev, init)
        c == IF entered THEN RemoteServer_configure(fm, oc, sw, tws)
             ELSE [raised |-> FALSE, created |-> FALSE, switchs |-> sw,
                   temp_watchers |-> tws]
        polls == ~c.raised /\ RemoteServer_polls(fm)
        io == polls /\ update_pid_raised(o)
        detects == polls /\ ~io
        d == detect_gpio_state(c.switchs, q, n)
    IN  [entered |-> entered,
         created |-> c.created,
         remote_error |-> c.raised,
         io_error |-> io,
         event |-> IF entered /\ ~c.raised /\ ev # NoEvent THEN "clear" ELSE ev,
         fresh_switchs |-> c.switchs,
         fresh_watchers |-> c.temp_watchers,
         switchs |-> IF detects THEN d.state ELSE c.switchs,
         temp_watchers |-> IF polls THEN update_pid(c.temp_watchers, o)
                           ELSE c.temp_watchers,
         polled |-> polls,
         detected |-> detects,
         queue |-> IF detects THEN d.queue ELSE q,
         sent |-> IF detects THEN d.sent ELSE n,
         new |-> IF detects THEN d.new ELSE {},
         sensed |-> IF polls THEN Sensed(o) ELSE [w \in Watchers |-> NotRead],
         triggered |-> [i \in Switches |-> detects /\ d.ret[i]]]

\* the fields and the events inlet after a call of run with result r
RemoteServer_after(r) ==
    /\ restart_event' = r.event
    /\ switchs' = r.switchs
    /\ temp_watchers' = r.temp_watchers
    /\ pins' = IF r.detected
               THEN [i \in Switches |-> [pins[i] EXCEPT !.event = FALSE]]
               ELSE pins
    /\ inlet' = [inlet EXCEPT ![Events] = r.queue]
    /\ sent' = [sent EXCEPT ![Events] = r.sent]
    /\ submitted' = submitted \cup r.new
    /\ reconf' = [entered |-> r.entered, created |-> r.created,
                  remote_error |-> r.remote_error,
                  event_before |-> restart_event, polled |-> r.polled]
    /\ UNCHANGED <<config, state, outletOf, outlet, machine, pc, cur, pend,
                   escaped, raised, lastSet, boot, closing>>
    /\ UNCHANGED queueVars
    /\ UNCHANGED regVars
    /\ UNCHANGED oscVars

RemoteServer_run ==
    /\ built = "constructed"
    /\ ran.n < MaxRuns
    /\ \E oc \in PinOutcomes : \E o \in [Watchers -> SensorOutcomes] :
          LET r == RemoteServer_run_result(fake_mode, restart_event, FALSE,
                                           switchs, temp_watchers,
                                           inlet[Events], sent[Events], oc, o)
          IN  /\ RemoteServer_after(r)
              /\ ran' = [n |-> ran.n + 1,
                         sensed |-> r.sensed,
                         before |-> r.fresh_watchers,
                         was |-> r.fresh_switchs,
                         triggered |-> r.triggered]
    /\ UNCHANGED <<fake_mode, built>>

(***************************************************************************)
(* RemoteServer.__init__: run(init=True), and on RemoteError fake mode and *)
(* run(init=True) once more.  Any other exception leaves the constructor.  *)
(***************************************************************************)
RemoteServer_construct(fm, oc, o) ==
    /\ built = "new"
    /\ LET r1 == RemoteServer_run_result(fm, restart_event, TRUE, switchs,
                                         temp_watchers, inlet[Events],
                                         sent[Events], oc, o)
           r2 == RemoteServer_run_result(TRUE, restart_event, TRUE,
                                         r1.switchs, r1.temp_watchers,
                                         inlet[Events], sent[Events], oc, o)
           r == IF r1.remote_error THEN r2 ELSE r1
       IN  /\ RemoteServer_after(r)
           /\ fake_mode' = (fm \/ r1.remote_error)
           /\ built' = IF r.remote_error \/ r.io_error THEN "aborted"
                       ELSE "constructed"
    /\ UNCHANGED ran

\* the owner of the restart event sets it
RestartEvent_set ==
    /\ built = "constructed"
    /\ restart_event = "clear"
    /\ restart_event' = "set"
    /\ UNCHANGED <<busVars, fake_mode, pins, switchs, temp_watchers, ran, built,
                   reconf>>
    /\ UNCHANGED queueVars
    /\ UNCHANGED regVars
    /\ UNCHANGED oscVars

Next ==
    \/ Start
    \/ \E p \in Procs : Submit(p)
    \/ Trigger
    \/ \E i \in Ids : Unblock(i)
    \/ \E i \in Ids : Take(i)
    \/ \E i \in Ids : Reply(i)

Spec == Init /\ [][Next]_vars

\* the internal-events inlet alone, its threads scheduled fairly: the switch
\* watcher puts triggers, the consumer that can pull one does, and the blocked
\* producer goes on once there is room
QueueNext ==
    \/ Start
    \/ Trigger
    \/ \E i \in Ids : Unblock(i)
    \/ \E i \in Ids : Take(i)

Fairness == \A i \in Ids : WF_vars(Take(i)) /\ WF_vars(Unblock(i))

QueueSpec == Init /\ [][QueueNext]_vars /\ Fairness

(***************************************************************************)
(* The life of the process: main() from the creation of the dispatcher to  *)
(* the exit of the consumers, with the traffic of the bus in between.      *)
(***************************************************************************)
LifeInit ==
    /\ config \in [osc_disable : BOOLEAN, serial_disable : BOOLEAN]
    /\ state = Dispatcher_init_state
    /\ outletOf = Dispatcher_init_outlets
    /\ inlet = [i \in Ids |-> <<>>]
    /\ outlet = [i \in Ids |-> <<>>]
    /\ machine = EmptyStore
    /\ pc = [i \in Ids |-> "idle"]
    /\ cur = [i \in Ids |-> NoCmd]
    /\ pend = [i \in Ids |-> <<>>]
    /\ sent = [i \in Ids |-> 0]
    /\ escaped = {}
    /\ submitted = {}
    /\ raised = {}
    /\ lastSet = EmptyStore
    /\ boot = BlockOf(OSC)
    /\ closing = {}
    /\ RemoteServer_init(FALSE)
    /\ Inlet_init
    /\ Registry_init
    /\ Osc_init

LifeNext ==
    \/ \E p \in Procs : Ertza_init_block(p)
    \/ Start
    \/ \E p \in Procs : Submit(p)
    \/ Trigger
    \/ \E i \in Ids : Unblock(i)
    \/ \E i \in Ids : Take(i)
    \/ \E i \in Ids : Reply(i)
    \/ Ertza_exit
    \/ \E i \in Ids : Consumer_exit(i)

LifeSpec == LifeInit /\ [][LifeNext]_vars

\* the same life with no traffic but the triggers of the switches
BootNext ==
    \/ \E p \in Procs : Ertza_init_block(p)
    \/ Start
    \/ Trigger
    \/ \E i \in Ids : Unblock(i)
    \/ \E i \in Ids : Take(i)
    \/ Ertza_exit
    \/ \E i \in Ids : Consumer_exit(i)

BootSpec == LifeInit /\ [][BootNext]_vars

(***************************************************************************)
(* The remote server on its own: the pins toggle, run() is called, and the *)
(* triggers it submits queue up on the internal-events inlet.              *)
(***************************************************************************)
RemoteInit ==
    /\ config = [osc_disable |-> FALSE, serial_disable |-> FALSE]
    /\ state = Ertza_init_state(config)
    /\ outletOf = Ertza_init_outlets(config)
    /\ inlet = [i \in Ids |-> <<>>]
    /\ outlet = [i \in Ids |-> <<>>]
    /\ machine = EmptyStore
    /\ pc = [i \in Ids |-> "idle"]
    /\ cur = [i \in Ids |-> NoCmd]
    /\ pend = [i \in Ids |-> <<>>]
    /\ sent = [i \in Ids |-> 0]
    /\ escaped = {}
    /\ submitted = {}
    /\ raised = {}
    /\ lastSet = EmptyStore
    /\ boot = "constructed"
    /\ closing = {}
    /\ \E fm \in BOOLEAN : RemoteServer_init(fm)
    /\ Inlet_init
    /\ Registry_init
    /\ Osc_init

RemoteNext ==
    \/ \E i \in Switches : Edge(i)
    \/ RemoteServer_run

RemoteSpec == RemoteInit /\ [][RemoteNext]_vars

(***************************************************************************)
(* Startup on its own: the registry is populated by calls of register.     *)
(***************************************************************************)
Register(alias, handler) ==
    /\ reg.n < MaxRegs
    /\ LET r == Registry_register(registry, alias, handler)
       IN  /\ registry' = r.registry
           /\ reg' = [n |-> reg.n + 1, alias |-> alias, handler |-> handler,
                      error |-> r.error, before |-> registry,
                      first |-> IF alias \in DOMAIN reg.first THEN reg.first
                                ELSE (alias :> handler) @@ reg.first]
    /\ UNCHANGED <<busVars, remoteVars, queueVars, oscVars>>

RegInit ==
    /\ config = [osc_disable |-> FALSE, serial_disable |-> FALSE]
    /\ state = Dispatcher_init_state
    /\ outletOf = Dispatcher_init_outlets
    /\ inlet = [i \in Ids |-> <<>>]
    /\ outlet = [i \in Ids |-> <<>>]
    /\ machine = EmptyStore
    /\ pc = [i \in Ids |-> "idle"]
    /\ cur = [i \in Ids |-> NoCmd]
    /\ pend = [i \in Ids |-> <<>>]
    /\ sent = [i \in Ids |-> 0]
    /\ escaped = {}
    /\ submitted = {}
    /\ raised = {}
    /\ lastSet = EmptyStore
    /\ boot = BlockOf(OSC)
    /\ closing = {}
    /\ RemoteServer_init(FALSE)
    /\ Inlet_init
    /\ registry = EmptyRegistry
    /\ reg = NoCall
    /\ Osc_init

RegNext == \E alias \in Aliases : \E handler \in Handlers : Register(alias, handler)

RegSpec == RegInit /\ [][RegNext]_vars

(***************************************************************************)
(* One OSC exchange: the server builds the message of a request, and the   *)
(* reply path of the command builds its ok and its error reply: the path   *)
(* of the request suffixed with the marker, the first argument echoed.     *)
(***************************************************************************)
OscRequest(path, args) ==
    /\ exchange.req = NoMsg
    /\ exchange' = [exchange EXCEPT !.req = OscMessage(path, args)]
    /\ UNCHANGED <<busVars, remoteVars, queueVars, regVars>>

\* what a reply carries after the first argument of its request
ReplyRest == { <<>>, <<V_1>> }

ReplyArgs(m, rest) == IF m.args = <<>> THEN rest ELSE <<m.args[1]>> \o rest

OscOk(rest) ==
    /\ exchange.req # NoMsg
    /\ exchange.ok = NoMsg
    /\ exchange' = [exchange EXCEPT !.ok =
                       OscMessage(exchange.req.path \o OkMarker,
                                  ReplyArgs(exchange.req, rest))]
    /\ UNCHANGED <<busVars, remoteVars, queueVars, regVars>>

OscError(rest) ==
    /\ exchange.req # NoMsg
    /\ exchange.error = NoMsg
    /\ exchange' = [exchange EXCEPT !.error =
                       OscMessage(exchange.req.path \o ErrorMarker,
                                  ReplyArgs(exchange.req, rest))]
    /\ UNCHANGED <<busVars, remoteVars, queueVars, regVars>>

OscNext ==
    \/ \E path \in RequestPaths : \E args \in RequestArgs : OscRequest(path, args)
    \/ \E rest \in ReplyRest : OscOk(rest)
    \/ \E rest \in ReplyRest : OscError(rest)

OscSpec == Init /\ [][OscNext]_vars

(***************************************************************************)
(* The remote server constructed where the pins cannot be configured, with *)
(* a restart event: construction, then edges, the event set, and run().    *)
(***************************************************************************)
FallbackInit ==
    /\ config = [osc_disable |-> FALSE, serial_disable |-> FALSE]
    /\ state = Ertza_init_state(config)
    /\ outletOf = Ertza_init_outlets(config)
    /\ inlet = [i \in Ids |-> <<>>]
    /\ outlet = [i \in Ids |-> <<>>]
    /\ machine = EmptyStore
    /\ pc = [i \in Ids |-> "idle"]
    /\ cur = [i \in Ids |-> NoCmd]
    /\ pend = [i \in Ids |-> <<>>]
    /\ sent = [i \in Ids |-> 0]
    /\ escaped = {}
    /\ submitted = {}
    /\ raised = {}
    /\ lastSet = EmptyStore
    /\ boot = "constructed"
    /\ closing = {}
    /\ Inlet_init
    /\ Registry_init
    /\ Osc_init
    /\ fake_mode = FALSE
    /\ pins \in [Switches -> [level : {0, 1}, event : {FALSE}]]
    /\ switchs = [i \in Switches |-> NoState]
    /\ temp_watchers = [w \in Watchers |-> TempWatcher_init]
    /\ ran = NoRun
    /\ restart_event \in {"set", "clear"}
    /\ built = "new"
    /\ reconf = NoReconf

FallbackNext ==
    \/ \E oc \in PinOutcomes \ {"configured"} :
          \E o \in [Watchers -> SensorOutcomes] : RemoteServer_construct(FALSE, oc, o)
    \/ \E i \in Switches : Edge(i)
    \/ RestartEvent_set
    \/ RemoteServer_run

FallbackSpec == FallbackInit /\ [][FallbackNext]_vars

(***************************************************************************)
(* Vocabulary of the properties.                                           *)
(***************************************************************************)
\* the replies on the outlets, each with its outlet and position
Delivered == {x \in Ids \X (1..MaxCmds) : x[2] <= Len(outlet[x[1]])}

ReplyAt(x) == outlet[x[1]][x[2]]

RepliesTo(c) == {x \in Delivered : ReplyAt(x).re = c}

\* the command has left its inlet and its consumer
Finished(c) ==
    /\ c \in submitted
    /\ \A i \in Ids : \A n \in DOMAIN inlet[i] : inlet[i][n] # c
    /\ \A i \in Ids : cur[i] # c

IsGet(c) == c.name = MachineGet_alias

IsSet(c) == c.name = MachineSet_alias

\* the reply of a machine.get that read a path some machine.set had written
ReadWritten(r) == IsGet(r.re) /\ IsSet(r.obs)

(***************************************************************************)
(* C1: read after write.  A machine.get of key k that reads k's canonical  *)
(* path when the last command that wrote that path was machine.set(k', v)  *)
(* replies ok with exactly (k, v), whichever processors issued the two.    *)
(***************************************************************************)
C1_ReadAfterWrite ==
    \A o \in Ids : \A n \in DOMAIN outlet[o] :
        LET r == outlet[o][n]
        IN  ReadWritten(r) =>
                /\ r.kind = "ok"
                /\ r.args = <<r.re.args[1], r.obs.args[2]>>

\* a get answered on one processor with the value set through the other
C1_Witness ==
    \E x \in Delivered :
        LET r == ReplyAt(x)
        IN  /\ ReadWritten(r)
            /\ r.kind = "ok"
            /\ r.obs.route # r.re.route
            /\ r.obs.args[1] = r.re.args[1]
            /\ Cardinality(RepliesTo(r.obs)) = 1

(***************************************************************************)
(* C2 (as claimed): once a command with a well-formed path has left its    *)
(* inlet and its consumer, exactly one reply to it is on an outlet.        *)
(***************************************************************************)
WellFormedPath(c) == c.args = <<>> \/ WellFormedKey(c.args[1])

C2_ExactlyOneReply ==
    \A c \in submitted :
        (Finished(c) /\ WellFormedPath(c)) => Cardinality(RepliesTo(c)) = 1

(***************************************************************************)
(* C3 (as claimed): a machine.set whose argument count is not 2 and a      *)
(* machine.get whose argument count is not 1 end in the arity error reply, *)
(* and no exception leaves the handler.                                    *)
(***************************************************************************)
ArityMismatch(c) ==
    \/ IsSet(c) /\ Len(c.args) # 2
    \/ IsGet(c) /\ Len(c.args) # 1

C3_ArityErrorReply ==
    \A c \in submitted :
        (Finished(c) /\ ArityMismatch(c)) =>
            /\ c \notin escaped
            /\ \E x \in RepliesTo(c) :
                  /\ ReplyAt(x).kind = "error"
                  /\ ReplyAt(x).args = <<Diag(InvalidArgs)>>

(***************************************************************************)
(* C4: a machine.get that reads a canonical path no command has written    *)
(* is answered with the unknown-key error, and with nothing else: no ok    *)
(* reply, no exception out of the handler, and the consumer is free for    *)
(* the next command.                                                       *)
(***************************************************************************)
ReadUnwritten(r) == IsGet(r.re) /\ r.obs = NeverWritten

C4_UnknownKeyReply ==
    \A o \in Ids : \A n \in DOMAIN outlet[o] :
        LET r == outlet[o][n]
        IN  ReadUnwritten(r) =>
                /\ r.kind = "error"
                /\ r.args = <<r.re.args[1], Diag(UnknownKeyError)>>
                /\ \A p \in Ids : \A m \in DOMAIN outlet[p] :
                      outlet[p][m].re = r.re => (p = o /\ m = n)
                /\ r.re \notin escaped
                /\ cur[r.re.route] # r.re

\* the unknown-key reply, and after it the reply to the next command
C4_Witness ==
    \E x \in Delivered :
        /\ ReadUnwritten(ReplyAt(x))
        /\ ReplyAt(x).kind = "error"
        /\ machine # EmptyStore
        /\ \E y \in Delivered : y[1] = x[1] /\ y[2] > x[2]

(***************************************************************************)
(* C5: canonicalization is idempotent and delimiter-independent.  For the  *)
(* keys of the commands the consumers are executing, the canonical key of  *)
(* a canonical key is itself and keys with the same segments have the same *)
(* canonical key in machine.set and in machine.get; and a machine.get      *)
(* under one spelling is answered with the value a machine.set wrote under *)
(* the other.                                                              *)
(***************************************************************************)
HasKey(c) == c.args # <<>> /\ IsStr(c.args[1])

C5_Canonical ==
    /\ \A i \in Ids :
          HasKey(cur[i]) =>
              LET k == cur[i].args[1]
              IN  /\ MachineSet_nk(MachineSet_nk(k)) = MachineSet_nk(k)
                  /\ MachineGet_nk(MachineGet_nk(k)) = MachineGet_nk(k)
                  /\ normalize(MachineSet_nk(k)) = normalize(k)
    /\ \A i, j \in Procs :
          (HasKey(cur[i]) /\ HasKey(cur[j])
             /\ normalize(cur[i].args[1]) = normalize(cur[j].args[1]))
              => MachineSet_nk(cur[i].args[1]) = MachineGet_nk(cur[j].args[1])
    /\ \A o \in Ids : \A n \in DOMAIN outlet[o] :
          LET r == outlet[o][n]
          IN  (ReadWritten(r) /\ r.obs.args[1] # r.re.args[1]) =>
                  /\ r.kind = "ok"
                  /\ r.args[2] = r.obs.args[2]

\* written under "a.b", read under "a:b"
C5_Witness ==
    \E x \in Delivered :
        LET r == ReplyAt(x)
        IN  /\ ReadWritten(r)
            /\ r.obs.args[1] = K_a_dot_b
            /\ r.re.args[1] = K_a_col_b
            /\ r.kind = "ok"
            /\ r.args = <<K_a_col_b, r.obs.args[2]>>

(***************************************************************************)
(* C6: the replies to the commands of one inlet are on its outlet in the   *)
(* order the commands were submitted.                                      *)
(***************************************************************************)
C6_ReplyOrder ==
    \A o \in Ids : \A m, n \in DOMAIN outlet[o] :
        (m < n /\ outlet[o][m].re.route = outlet[o][n].re.route)
            => outlet[o][m].re.seq < outlet[o][n].re.seq

\* two replies in order on one outlet, a reply on another in between times
C6_Witness ==
    \E p \in Procs :
        /\ Len(outlet[p]) = 2
        /\ outlet[p][1].re.seq = 1
        /\ outlet[p][2].re.seq = 2
        /\ \E q \in Ids \ {p} : Len(outlet[q]) = 1

(***************************************************************************)
(* C7: no lost update.  In every state, a machine.get of the key of the    *)
(* machine.set that last wrote a path would return the value it wrote,     *)
(* whatever was written to other paths by other consumers meanwhile.       *)
(***************************************************************************)
GetNow(k) == MachineGet_execute(Cmd(Events, 0, MachineGet_alias, <<k>>), machine)

C7_NoLostUpdate ==
    \A path \in DOMAIN lastSet :
        LET w == lastSet[path]
        IN  /\ GetNow(w.args[1]).out = "ok"
            /\ GetNow(w.args[1]).args = <<w.args[1], w.args[2]>>

\* two consumers at once between their write and their ok, on distinct paths
C7_Witness ==
    /\ pc[OSC] = "reply"
    /\ pc[Serial] = "reply"
    /\ IsSet(cur[OSC])
    /\ IsSet(cur[Serial])
    /\ normalize(cur[OSC].args[1]) # normalize(cur[Serial].args[1])
    /\ Cardinality(DOMAIN machine) = 2

(***************************************************************************)
(* C8 (as claimed): a resolved command whose handler raised inside its try *)
(* block has, once it has left its consumer, exactly one reply, and that   *)
(* reply is an error reply on the outlet of the processor it came from.    *)
(***************************************************************************)
C8_RaiseOneErrorReply ==
    \A c \in raised :
        Finished(c) =>
            /\ Cardinality(RepliesTo(c)) = 1
            /\ \A x \in RepliesTo(c) : ReplyAt(x).kind = "error" /\ x[1] = c.route

(***************************************************************************)
(* C9: when a consumer takes a command whose name is bound to no handler,  *)
(* that step appends the unknown-command error reply to the caller's       *)
(* outlet, leaves the store as it was and leaves the consumer active and   *)
(* idle, ready for the commands queued behind.                             *)
(***************************************************************************)
Registered == {MachineSet_alias, MachineGet_alias}

UnknownTaken(i) ==
    /\ state[i] = "ACTIVE"
    /\ pc[i] = "idle"
    /\ inlet[i] # <<>>
    /\ Head(inlet[i]).name \notin Registered
    /\ inlet'[i] = Tail(inlet[i])

C9_UnknownCommand ==
    [][\A i \in Ids :
          UnknownTaken(i) =>
              LET c == Head(inlet[i])
              IN  /\ outlet'[c.route] =
                        Append(outlet[c.route],
                               ReplyRec(c, "error", <<Diag(UnknownCommandError)>>, NoCmd))
                  /\ \A o \in Ids \ {c.route} : outlet'[o] = outlet[o]
                  /\ machine' = machine
                  /\ state'[i] = "ACTIVE"
                  /\ pc'[i] = "idle"
                  /\ escaped' = escaped]_vars

\* the unknown-command reply, then the reply to the command queued behind it,
\* with the store holding what an earlier machine.set wrote
C9_Witness ==
    \E x \in Delivered :
        /\ ReplyAt(x).args = <<Diag(UnknownCommandError)>>
        /\ ReplyAt(x).re.name = Ping
        /\ machine # EmptyStore
        /\ \E y \in Delivered :
              /\ y[1] = x[1]
              /\ y[2] = x[2] + 1
              /\ ReplyAt(y).re.seq = ReplyAt(x).re.seq + 1

(***************************************************************************)
(* C10: every reply is on the outlet of the processor its command was      *)
(* submitted through.                                                      *)
(***************************************************************************)
C10_ReplyRoute ==
    \A o \in Ids : \A n \in DOMAIN outlet[o] : outlet[o][n].re.route = o

\* both processors registered and active, each with an ok and an error reply
C10_Witness ==
    /\ state[OSC] = "ACTIVE"
    /\ state[Serial] = "ACTIVE"
    /\ \E x, y \in Delivered :
          /\ x[1] = OSC
          /\ y[1] = Serial
          /\ ReplyAt(x).kind = "ok"
          /\ ReplyAt(y).kind = "error"

(***************************************************************************)
(* C11 (as claimed): a switch handler's poll submits a trigger only when   *)
(* the handler's state differs from its state at the last check, and two   *)
(* consecutive triggers of one switch never carry the same state.          *)
(***************************************************************************)
IsTriggerOf(i, c) == c.name = SwitchAction(i)

\* the triggers of switch i on the internal-events inlet, in order
SwitchTriggers(i) ==
    LET Mine(c) == IsTriggerOf(i, c) IN SelectSeq(inlet[Events], Mine)

ReadFailed(w) == ran.sensed[w] \in {ReadError, OpenError}

PidState(tw) == <<tw.error, tw.error_last, tw.error_sum, tw.duty>>

AboveMax(w) == ran.sensed[w].kind = "sample" /\ ran.sensed[w].v > max_temperature

ThermalTriggerOf(w, c) ==
    /\ c.name = TempTrigger
    /\ c.args = <<WatcherName(w), ran.sensed[w].v>>

Disabled(p) == IF p = OSC THEN config.osc_disable ELSE config.serial_disable

Starts == boot # "started" /\ boot' = "started"

C12_Lifecycle ==
    [][/\ \A i \in Ids :
             state'[i] # state[i] =>
                 \/ /\ state[i] = "ABSENT"
                    /\ state'[i] = "REGISTERED"
                    /\ i \in Procs
                    /\ boot = BlockOf(i)
                    /\ \A j \in Ids : state[j] \in {"ABSENT", "REGISTERED"}
                 \/ /\ state[i] = "REGISTERED"
                    /\ state'[i] = "ACTIVE"
                    /\ Starts
                 \/ /\ state[i] = "ACTIVE"
                    /\ state'[i] = "STOPPED"
                    /\ boot = "exited"
       /\ Starts => \A p \in Procs : ~Disabled(p) => state[p] = "REGISTERED"
       /\ \A p \in Procs : state'[p] # "ABSENT" => ~Disabled(p)]_vars

\* one processor disabled and never added, the other registered, started and
\* stopped; the events consumer stopped after it answered a trigger
C12_Witness ==
    /\ boot = "exited"
    /\ \E p, q \in Procs :
          /\ state[p] = "STOPPED"
          /\ state[q] = "ABSENT"
    /\ state[Events] = "STOPPED"
    /\ Len(outlet[Events]) > 0

(***************************************************************************)
(* C15 (as claimed): when the consumer of an inlet exits, every command    *)
(* that was in flight on that inlet when shutdown closed the inlets has    *)
(* exactly one reply; and after shutdown no command is accepted.           *)
(***************************************************************************)
C15_DrainOnShutdown ==
    [][/\ \A i \in Ids :
             (state[i] = "ACTIVE" /\ state'[i] = "STOPPED") =>
                 \A c \in closing :
                     c.route = i => Cardinality(RepliesTo(c)) = 1
       /\ boot = "exited" => submitted' = submitted]_vars

(***************************************************************************)
(* C14: a command or trigger put on a full inlet is never dropped.  Every  *)
(* command a producer called put with is on the inlet or has left it, or   *)
(* its producer is still blocked on it; and under fair scheduling the n-th *)
(* command put on an inlet is eventually pulled by that inlet's consumer.  *)
(***************************************************************************)
TakenFrom(i) == Cardinality({c \in taken : c.route = i})

NeverDropped == \A c \in offered : c \in submitted \/ blocked[c.route] = c

C14_Backpressure ==
    /\ []NeverDropped
    /\ \A i \in Ids : \A n \in 1..MaxCmds : (sent[i] >= n) ~> (TakenFrom(i) >= n)

\* a command whose producer found the inlet full has been pulled and answered
C14_Witness ==
    \E c \in waited : c \in taken /\ Cardinality(RepliesTo(c)) = 1

PingStyle(path) == Contains(path, PingMark)

Replies == {exchange.ok, exchange.error} \ {NoMsg}

SameFirstArg(q, r) == q.args # <<>> /\ r.args # <<>> /\ r.args[1] = q.args[1]

C18_CorrelationId ==
    \A r \in Replies :
        LET q == exchange.req
        IN  IF PingStyle(q.path)
            THEN /\ OscMessage_uid(q) = Uid(q.path)
                 /\ OscMessage_uid(r) = OscMessage_uid(q)
            ELSE SameFirstArg(q, r) =>
                    /\ OscMessage_uid(q) = Uid(q.path \o <<" ">> \o q.args[1].s)
                    /\ OscMessage_uid(r) = OscMessage_uid(q)

(***************************************************************************)
(* C19 (as claimed): the reply to a command whose handler failed, by an    *)
(* arity mismatch or by an exception in its try block, is an error reply   *)
(* that carries the diagnostic as its sole argument, for machine.set and   *)
(* machine.get alike.                                                      *)
(***************************************************************************)
HandlerFailed(c) ==
    /\ c.name \in Registered
    /\ (ArityMismatch(c) \/ c \in raised)

SoleDiagnostic(args) == Len(args) = 1 /\ args[1].t = "diag"

C19_ErrorReplyShape ==
    \A x \in Delivered :
        HandlerFailed(ReplyAt(x).re) =>
            /\ ReplyAt(x).kind = "error"
            /\ SoleDiagnostic(ReplyAt(x).args)

(***************************************************************************)
(* C20 (as claimed): each inlet makes progress independently.  While the   *)
(* handler of a command from one processor is stalled, the consumer of     *)
(* every other active inlet can pull the next command queued on it, and    *)
(* every command it has pulled and is done with has been answered.         *)
(***************************************************************************)
\* the consumer of inlet i is inside a handler that has not replied yet
Stalled(i) == state[i] = "ACTIVE" /\ pc[i] = "reply"

Done(c) == c \in taken /\ cur[c.route] # c

C20_IndependentProgress ==
    \A i \in Ids : Stalled(i) =>
        \A j \in Ids \ {i} : state[j] = "ACTIVE" =>
            /\ (inlet[j] # <<>> /\ pc[j] = "idle") => ENABLED Take(j)
            /\ \A c \in submitted :
                  (c.route = j /\ Done(c)) => Cardinality(RepliesTo(c)) = 1

(***************************************************************************)
(* C21: handlers change the store only where addressed.  The step in which *)
(* a consumer runs a machine.set that goes on to its ok reply leaves the   *)
(* set value at the key's canonical path and every entry at another path   *)
(* as it was; the step of a machine.get, of any command that ends in an    *)
(* error reply or an exception, and every other step leave the whole store *)
(* unchanged.                                                              *)
(***************************************************************************)
\* the command consumer i pulls in this step and goes on to answer ok
SetsOk(i, c) ==
    /\ taken' = taken \cup {c}
    /\ c \notin taken
    /\ c.route = i
    /\ IsSet(c)
    /\ cur'[i] = c

\* the entries of store m that lie at the canonical path of key k
EntriesAt(m, k) == {nk \in DOMAIN m : normalize(nk) = normalize(k)}

OnlyAddressed(c) ==
    /\ \E nk \in EntriesAt(machine', c.args[1]) : machine'[nk] = c.args[2]
    /\ \A nk \in (DOMAIN machine \cup DOMAIN machine') \ EntriesAt(machine', c.args[1]) :
          /\ nk \in DOMAIN machine
          /\ nk \in DOMAIN machine'
          /\ machine'[nk] = machine[nk]

C21_FrameEffect ==
    [][ IF \E i \in Ids : \E c \in submitted : SetsOk(i, c)
        THEN \A i \in Ids : \A c \in submitted : SetsOk(i, c) => OnlyAddressed(c)
        ELSE machine' = machine ]_vars

\* two entries written by two machine.set, both still there beside the error
\* reply of a third machine.set or machine.get
C21_Witness ==
    /\ Cardinality(DOMAIN machine) = 2
    /\ \E x \in Delivered : ReplyAt(x).kind = "error" /\ ReplyAt(x).re.name \in Registered

(***************************************************************************)
(* C22: when pin configuration fails during construction the server falls  *)
(* back to fake mode and construction completes.  From then on it stays in *)
(* fake mode, and a call of run() leaves the PID loops, the switch         *)
(* handlers, the edge latches and the events inlet as they were; it        *)
(* reconfigures exactly when the restart event is set, and then clears it. *)
(***************************************************************************)
Constructs == built = "new" /\ built' # "new"

Runs == ran'.n = ran.n + 1

C22_FakeModeFallback ==
    [][ /\ Constructs => (built' = "constructed" /\ fake_mode')
        /\ fake_mode => fake_mode'
        /\ (Runs /\ fake_mode) =>
              /\ temp_watchers' = temp_watchers
              /\ switchs' = switchs
              /\ pins' = pins
              /\ inlet' = inlet
              /\ submitted' = submitted
              /\ ~reconf'.polled
              /\ reconf'.entered = (restart_event = "set")
              /\ restart_event' = IF restart_event = "set" THEN "clear"
                                  ELSE restart_event ]_vars

\* the server fell back to fake mode; an edge is latched on a pin, the restart
\* event was set, and run() has reconfigured and cleared it without polling
C22_Witness ==
    /\ built = "constructed"
    /\ fake_mode
    /\ ran.n > 0
    /\ reconf.entered
    /\ reconf.event_before = "set"
    /\ restart_event = "clear"
    /\ \E i \in Switches : pins[i].event
    /\ submitted = {}

====
